---- MODULE Spec2Model ----
(***************************************************************************)
(* Model of telegram-checker.py: the identifier validators, the presence   *)
(* status classifier, the phone / username lookup protocol with its        *)
(* transient-contact fallback, and the batch loops.  Strings that the code *)
(* inspects character by character are sequences of one-character strings;*)
(* an Optional value is a sequence of length 0 (None) or 1.                *)
(***************************************************************************)
EXTENDS Integers, Sequences, FiniteSets, TLC

None == <<>>
Some(x) == <<x>>

(* ---------------- bounds of the model ---------------- *)
\* longest batch input list
MaxBatch == 2
\* most avatars the platform lists for one account
MaxPhotos == 2

(* ---------------- program constants ---------------- *)
\* '^\+\d{10,15}$'
MinPhoneDigits == 10
MaxPhoneDigits == 15
\* '^[A-Za-z]\w{3,30}[A-Za-z0-9]$'
MinUserMiddle == 3
MaxUserMiddle == 30

(* ---------------- characters ---------------- *)
Digits == {"0", "1", "2", "3", "4", "5", "6", "7", "8", "9"}
Letters == {"a", "b", "c", "d", "e", "g", "h", "i", "l", "m", "n", "o", "p",
            "r", "s", "t", "w", "A", "B", "Z"}
Whitespace == {" "}
WordChars == Letters \cup Digits \cup {"_"}

(* str.strip(): drop leading and trailing whitespace *)
RECURSIVE lstrip_ws(_)
lstrip_ws(s) ==
    IF s # <<>> /\ Head(s) \in Whitespace THEN lstrip_ws(Tail(s)) ELSE s

RECURSIVE rstrip_ws(_)
rstrip_ws(s) ==
    IF s # <<>> /\ s[Len(s)] \in Whitespace
    THEN rstrip_ws(SubSeq(s, 1, Len(s) - 1)) ELSE s

strip(s) == rstrip_ws(lstrip_ws(s))

(* str.lstrip('@'): drop every leading '@' *)
RECURSIVE lstrip_at(_)
lstrip_at(s) ==
    IF s # <<>> /\ Head(s) = "@" THEN lstrip_at(Tail(s)) ELSE s

AllIn(s, set) == \A i \in 1..Len(s) : s[i] \in set

(* re.sub(r'[^\d+]', '', s): keep digits and '+' wherever they stand *)
KeepDigitsPlus(s) == SelectSeq(s, LAMBDA c : c \in Digits \cup {"+"})

(* re.match(r'^\+\d{10,15}$', s) *)
MatchesPhone(s) ==
    /\ s # <<>>
    /\ Head(s) = "+"
    /\ Len(s) - 1 >= MinPhoneDigits
    /\ Len(s) - 1 <= MaxPhoneDigits
    /\ AllIn(Tail(s), Digits)

(* re.match(r'^[A-Za-z]\w{3,30}[A-Za-z0-9]$', s) *)
MatchesUsername(s) ==
    /\ Len(s) >= MinUserMiddle + 2
    /\ Len(s) <= MaxUserMiddle + 2
    /\ Head(s) \in Letters
    /\ AllIn(SubSeq(s, 2, Len(s) - 1), WordChars)
    /\ s[Len(s)] \in Letters \cup Digits

(* validate_phone_number: the normalised number, or ValueError carrying it *)
validate_phone_number(raw) ==
    LET kept == KeepDigitsPlus(strip(raw))
        phone == IF kept # <<>> /\ Head(kept) = "+" THEN kept ELSE <<"+">> \o kept
    IN  IF MatchesPhone(phone)
        THEN [raised |-> FALSE, value |-> phone, message |-> <<>>]
        ELSE [raised |-> TRUE, value |-> phone,
              message |-> <<"Invalid phone number format: ", phone>>]

(* validate_username *)
validate_username(raw) ==
    LET username == lstrip_at(strip(raw))
    IN  IF MatchesUsername(username)
        THEN [raised |-> FALSE, value |-> username, message |-> <<>>]
        ELSE [raised |-> TRUE, value |-> username,
              message |-> <<"Invalid username format: ", username>>]

(* ---------------- presence status ---------------- *)
DigitChars == <<"0", "1", "2", "3", "4", "5", "6", "7", "8", "9">>

\* the decimal digits of n, zero-padded to width w
RECURSIVE Pad(_, _)
Pad(n, w) ==
    IF w = 0 THEN <<>> ELSE Pad(n \div 10, w - 1) \o <<DigitChars[(n % 10) + 1]>>

(* datetime.strftime('%Y-%m-%d %H:%M:%S UTC') *)
strftime(t) ==
    Pad(t.year, 4) \o <<"-">> \o Pad(t.month, 2) \o <<"-">> \o Pad(t.day, 2)
        \o <<" ">> \o Pad(t.hour, 2) \o <<":">> \o Pad(t.minute, 2)
        \o <<":">> \o Pad(t.second, 2) \o <<" ", "U", "T", "C">>

\* sample last-seen instants
Instants ==
    { [year |-> 2024, month |-> 1, day |-> 5, hour |-> 9, minute |-> 3, second |-> 0],
      [year |-> 1999, month |-> 12, day |-> 31, hour |-> 23, minute |-> 59, second |-> 59] }

\* the values user.status can take: the telethon variants the classifier
\* names, Python None ("None"), a variant it does not name
\* (UserStatusEmpty), and UserStatusOffline whose was_online is None
Statuses ==
    { [variant |-> v, was_online |-> None] :
        v \in {"UserStatusOnline", "UserStatusOffline", "UserStatusRecently",
               "UserStatusLastWeek", "UserStatusLastMonth", "None",
               "UserStatusEmpty"} }
    \cup { [variant |-> "UserStatusOffline", was_online |-> Some(t)] : t \in Instants }

\* dict.update: the keys of upd replace those of result
Update(result, upd) ==
    [f \in DOMAIN result |-> IF f \in DOMAIN upd THEN upd[f] ELSE result[f]]

\* lines 104-109
DefaultResult ==
    [raised |-> FALSE,
     display_text |-> <<"Unknown">>,
     exact_time |-> None,
     status_type |-> "unknown",
     privacy_restricted |-> FALSE]

\* lines 112-116
OnlineUpdate ==
    [display_text |-> <<"Currently online">>,
     status_type |-> "online",
     privacy_restricted |-> FALSE]

\* lines 119-124
OfflineUpdate(exact_time) ==
    [display_text |-> <<"Last seen: ">> \o exact_time,
     exact_time |-> Some(exact_time),
     status_type |-> "offline",
     privacy_restricted |-> FALSE]

\* RecentlyUpdate that does not flag the bucket as privacy restricted
RecentlyUpdate_NotRestricted ==
    [display_text |-> <<"Last seen recently (1 second - 3 days ago)">>,
     status_type |-> "recently",
     privacy_restricted |-> FALSE]

\* lines 126-130
RecentlyUpdate ==
    [display_text |-> <<"Last seen recently (1 second - 3 days ago)">>,
     status_type |-> "recently",
     privacy_restricted |-> TRUE]

\* lines 132-136
LastWeekUpdate ==
    [display_text |-> <<"Last seen within a week (3-7 days ago)">>,
     status_type |-> "last_week",
     privacy_restricted |-> TRUE]

\* lines 138-142
LastMonthUpdate ==
    [display_text |-> <<"Last seen within a month (7-30 days ago)">>,
     status_type |-> "last_month",
     privacy_restricted |-> TRUE]

\* lines 144-147
UnavailableUpdate ==
    [display_text |-> <<"Status unavailable">>,
     status_type |-> "unavailable"]

(* get_enhanced_user_status.  raised = TRUE stands for the AttributeError  *)
(* of None.strftime on line 118.                                           *)
get_enhanced_user_status(status) ==
    CASE status.variant = "UserStatusOnline" -> Update(DefaultResult, OnlineUpdate)
      [] status.variant = "UserStatusOffline" ->
           IF status.was_online = None
           THEN [DefaultResult EXCEPT !.raised = TRUE]
           ELSE Update(DefaultResult, OfflineUpdate(strftime(status.was_online[1])))
      [] status.variant = "UserStatusRecently" -> Update(DefaultResult, RecentlyUpdate)
      [] status.variant = "UserStatusLastWeek" -> Update(DefaultResult, LastWeekUpdate)
      [] status.variant = "UserStatusLastMonth" -> Update(DefaultResult, LastMonthUpdate)
      [] status.variant = "None" -> Update(DefaultResult, UnavailableUpdate)
      [] OTHER -> DefaultResult

\* from_user without the inner try of lines 53-60: a failed GetFullUserRequest
\* leaves from_user as an exception
from_user_FetchFailureEscapes(full, user, phone) ==
    LET status_info == get_enhanced_user_status(user.status)
    IN  IF full = None \/ status_info.raised
        THEN [raised |-> TRUE, value |-> None]
        ELSE [raised |-> FALSE,
              value |-> Some([id |-> user.id,
                              username |-> user.username,
                              phone |-> phone,
                              last_seen |-> status_info.display_text,
                              last_seen_exact |-> status_info.exact_time,
                              status_type |-> status_info.status_type,
                              privacy_restricted |-> status_info.privacy_restricted,
                              profile_photos |-> <<>>,
                              bio |-> Some(full[1].about),
                              common_chats_count |-> Some(full[1].common_chats_count),
                              blocked |-> Some(full[1].blocked)])]

(* ---------------- TelegramUser ---------------- *)
(* TelegramUser.from_user.  full is the answer of GetFullUserRequest, None *)
(* when the request raised (swallowed on line 59).  The outer handler      *)
(* (lines 83-101) classifies again, so an exception of the classifier      *)
(* leaves from_user.                                                       *)
from_user(full, user, phone) ==
    LET status_info == get_enhanced_user_status(user.status)
        bio == IF full = None THEN "" ELSE full[1].about
        common == IF full = None THEN 0 ELSE full[1].common_chats_count
        blocked == IF full = None THEN FALSE ELSE full[1].blocked
        common_fields(info) ==
            [id |-> user.id,
             username |-> user.username,
             phone |-> phone,
             last_seen |-> info.display_text,
             last_seen_exact |-> info.exact_time,
             status_type |-> info.status_type,
             privacy_restricted |-> info.privacy_restricted,
             profile_photos |-> <<>>]
    IN  IF ~status_info.raised
        THEN [raised |-> FALSE,
              value |-> Some(common_fields(status_info) @@
                             [bio |-> Some(bio),
                              common_chats_count |-> Some(common),
                              blocked |-> Some(blocked)])]
        ELSE LET again == get_enhanced_user_status(user.status)
             IN  IF again.raised
                 THEN [raised |-> TRUE, value |-> None]
                 ELSE [raised |-> FALSE,
                       value |-> Some(common_fields(again) @@
                                      [bio |-> None,
                                       common_chats_count |-> None,
                                       blocked |-> None])]

(* ---------------- sample inputs and the platform's directory ---------------- *)
\* "+15551234567": well formed, an account exists
PhoneAlice == <<"+", "1", "5", "5", "5", "1", "2", "3", "4", "5", "6", "7">>
\* "15551234567": the same number without the '+', as an operator may type it
PhoneAlicePlain == Tail(PhoneAlice)
\* " 1555-000-1111 ": well formed after normalisation, no account
PhoneSpaced == <<" ", "1", "5", "5", "5", "-", "0", "0", "0", "-", "1", "1", "1", "1", " ">>
\* "bad-phone"
PhoneBad == <<"b", "a", "d", "-", "p", "h", "o", "n", "e">>
\* "  "
Blank == <<" ", " ">>
\* ""
EmptyString == <<>>
\* "@alice": a user account
NameAlice == <<"@", "a", "l", "i", "c", "e">>
\* "newsroom": a channel
NameNewsroom == <<"n", "e", "w", "s", "r", "o", "o", "m">>
\* "ghost1": well formed, not occupied
NameGhost == <<"g", "h", "o", "s", "t", "1">>
\* "bob": too short
NameBob == <<"b", "o", "b">>

RawPhones == {PhoneAlice, PhoneAlicePlain, PhoneSpaced, PhoneBad, Blank}
RawUsernames == {NameAlice, NameNewsroom, NameGhost, NameBob, Blank}

SeqsUpTo(S, n) == UNION { [1..k -> S] : k \in 1..n }

\* two blank entries and one valid number, as split(",") can produce them
BlanksThenPhone == <<EmptyString, Blank, PhoneAlice>>

\* the input lists of a run: every list up to MaxBatch, and BlanksThenPhone
BatchInputs(m) ==
    IF m = "phones"
    THEN SeqsUpTo(RawPhones, MaxBatch) \cup {BlanksThenPhone}
    ELSE SeqsUpTo(RawUsernames, MaxBatch)

\* the platform stores an account's number without the '+'
Alice == [id |-> 1001, kind |-> "User", username |-> Tail(NameAlice),
          phone |-> PhoneAlicePlain]
Newsroom == [id |-> 2001, kind |-> "Channel", username |-> NameNewsroom,
             phone |-> <<>>]
\* an account that is in the caller's contact list and is never probed
Carol == [id |-> 1002, kind |-> "User", username |-> <<"c", "a", "r", "o", "l">>,
          phone |-> <<>>]

AccountOfPhone(phone) == IF phone = PhoneAlice THEN Some(Alice) ELSE None

AccountOfUsername(name) ==
    IF name = Alice.username THEN Some(Alice)
    ELSE IF name = Newsroom.username THEN Some(Newsroom)
    ELSE None

\* what GetFullUserRequest answers for an account
FullUserOf(id) == [about |-> "Hello there", common_chats_count |-> 2, blocked |-> TRUE]

VARIABLES
    mode,       \* "phones" (process_phones) or "usernames" (process_usernames)
    ids,        \* the batch input list
    idx,        \* position of the loop in ids
    results,    \* the result mapping under construction
    log,        \* history: key and return value of every lookup made so far
    pc,         \* position of the running coroutine
    arg,        \* the loop's stripped identifier, the argument of the lookup
    ident,      \* the lookup's validated phone / username
    path,       \* "none", "direct", "fallback" or "username"
    user,       \* Optional entity the lookup holds
    tu,         \* Optional TelegramUser built by from_user
    nphotos,    \* number of avatars get_profile_photos listed
    exc,        \* an exception is propagating out of the inner try (line 230)
    ret,        \* Optional TelegramUser the lookup returns
    calls,      \* history: the platform requests of the running lookup
    contacts,   \* the caller's contact list on the platform (account ids)
    contacts0,  \* history: contacts when the running lookup was entered
    status      \* the presence status the platform reports for user accounts

vars == <<mode, ids, idx, results, log, pc, arg, ident, path, user, tu, nphotos,
          exc, ret, calls, contacts, contacts0, status>>

batchVars == <<mode, ids, idx, results, log>>

\* an entity as the platform hands it out
Entity(account) == account @@ [status |-> status]

Call(op, name, id, ok) == [op |-> op, name |-> name, id |-> id, ok |-> ok]

Init ==
    /\ mode \in {"phones", "usernames"}
    /\ ids \in BatchInputs(mode)
    /\ idx = 1
    /\ results = <<>>
    /\ log = <<>>
    /\ pc = "loop"
    /\ arg = <<>>
    /\ ident = <<>>
    /\ path = "none"
    /\ user = None
    /\ tu = None
    /\ nphotos = 0
    /\ exc = FALSE
    /\ ret = None
    /\ calls = <<>>
    /\ contacts \in {{Carol.id}, {Carol.id, Alice.id}}
    /\ contacts0 = contacts
    /\ status \in Statuses

(* ---------------- the batch loop ---------------- *)
\* ProcessNext without the test of lines 271 / 289: blank entries are looked up
ProcessNext_NoBlankSkip ==
    /\ pc = "loop"
    /\ idx <= Len(ids)
    /\ arg' = strip(ids[idx])
    /\ pc' = "validate"
    /\ contacts0' = contacts
    /\ UNCHANGED <<mode, ids, idx, results, log, ident, path, user, tu, nphotos, exc,
                   ret, calls, contacts, status>>

\* ProcessNext that moves on in the list as soon as it has started a lookup
ProcessNext_AdvancesEarly ==
    /\ pc = "loop"
    /\ idx <= Len(ids)
    /\ idx' = idx + 1
    /\ LET phone == strip(ids[idx])
       IN  IF phone = <<>>
           THEN UNCHANGED <<pc, arg, contacts0>>
           ELSE /\ arg' = phone
                /\ pc' = "validate"
                /\ contacts0' = contacts
    /\ UNCHANGED <<mode, ids, results, log, ident, path, user, tu, nphotos, exc,
                   ret, calls, contacts, status>>

(* process_phones / process_usernames, loop head: strip, skip blanks, call *)
(* the lookup with the stripped identifier.                                *)
ProcessNext ==
    /\ pc = "loop"
    /\ idx <= Len(ids)
    /\ LET phone == strip(ids[idx])
       IN  IF phone = <<>>
           THEN /\ idx' = idx + 1
                /\ UNCHANGED <<pc, arg, contacts0>>
           ELSE /\ arg' = phone
                /\ pc' = "validate"
                /\ contacts0' = contacts
                /\ UNCHANGED idx
    /\ UNCHANGED <<mode, ids, results, log, ident, path, user, tu, nphotos, exc,
                   ret, calls, contacts, status>>

\* the value stored for a lookup's return value (lines 274, 292)
EntryOf(r) ==
    IF r # None THEN [error |-> <<>>, data |-> r]
    ELSE [error |-> <<"No Telegram account found">>, data |-> None]

\* StoreResult that leaves the loop when a lookup found nothing
StoreResult_AbortOnFailure ==
    /\ pc = "return"
    /\ results' = [k \in DOMAIN results \cup {arg} |->
                      IF k = arg THEN EntryOf(ret) ELSE results[k]]
    /\ log' = Append(log, [key |-> arg, ret |-> ret])
    /\ idx' = idx + 1
    /\ pc' = IF ret = None THEN "done" ELSE "loop"
    /\ arg' = <<>>
    /\ ident' = <<>>
    /\ path' = "none"
    /\ user' = None
    /\ tu' = None
    /\ nphotos' = 0
    /\ exc' = FALSE
    /\ ret' = None
    /\ calls' = <<>>
    /\ contacts0' = contacts
    /\ UNCHANGED <<mode, ids, contacts, status>>

\* StoreResult that files the entry under the lookup's normalised identifier
StoreResult_KeyNormalised ==
    /\ pc = "return"
    /\ results' = [k \in DOMAIN results \cup {ident} |->
                      IF k = ident THEN EntryOf(ret) ELSE results[k]]
    /\ log' = Append(log, [key |-> arg, ret |-> ret])
    /\ idx' = idx + 1
    /\ pc' = "loop"
    /\ arg' = <<>>
    /\ ident' = <<>>
    /\ path' = "none"
    /\ user' = None
    /\ tu' = None
    /\ nphotos' = 0
    /\ exc' = FALSE
    /\ ret' = None
    /\ calls' = <<>>
    /\ contacts0' = contacts
    /\ UNCHANGED <<mode, ids, contacts, status>>

\* StoreResult that keeps the entry a key already has (dict.setdefault)
StoreResult_KeepFirst ==
    /\ pc = "return"
    /\ results' = [k \in DOMAIN results \cup {arg} |->
                      IF k \in DOMAIN results THEN results[k] ELSE EntryOf(ret)]
    /\ log' = Append(log, [key |-> arg, ret |-> ret])
    /\ idx' = idx + 1
    /\ pc' = "loop"
    /\ arg' = <<>>
    /\ ident' = <<>>
    /\ path' = "none"
    /\ user' = None
    /\ tu' = None
    /\ nphotos' = 0
    /\ exc' = FALSE
    /\ ret' = None
    /\ calls' = <<>>
    /\ contacts0' = contacts
    /\ UNCHANGED <<mode, ids, contacts, status>>

(* the lookup returned: store its entry under the stripped identifier and  *)
(* go on with the next one.  Neither lookup lets an exception escape, so   *)
(* the handlers of lines 275-278 and 293-296 have nothing to catch.        *)
StoreResult ==
    /\ pc = "return"
    /\ results' = [k \in DOMAIN results \cup {arg} |->
                      IF k = arg THEN EntryOf(ret) ELSE results[k]]
    /\ log' = Append(log, [key |-> arg, ret |-> ret])
    /\ idx' = idx + 1
    /\ pc' = "loop"
    /\ arg' = <<>>
    /\ ident' = <<>>
    /\ path' = "none"
    /\ user' = None
    /\ tu' = None
    /\ nphotos' = 0
    /\ exc' = FALSE
    /\ ret' = None
    /\ calls' = <<>>
    /\ contacts0' = contacts
    /\ UNCHANGED <<mode, ids, contacts, status>>

\* the loop ran off the list: return results
Finish ==
    /\ pc = "loop"
    /\ idx > Len(ids)
    /\ pc' = "done"
    /\ UNCHANGED <<mode, ids, idx, results, log, arg, ident, path, user, tu,
                   nphotos, exc, ret, calls, contacts, contacts0, status>>

(* ---------------- check_phone_number ---------------- *)
\* ValidatePhone that normalises the number and never rejects it
ValidatePhone_Unchecked ==
    /\ pc = "validate"
    /\ mode = "phones"
    /\ ident' = validate_phone_number(arg).value
    /\ pc' = "direct"
    /\ UNCHANGED <<batchVars, arg, path, user, tu, nphotos, exc, ret, calls, contacts,
                   contacts0, status>>

\* line 217: a ValueError goes to the handler of line 241, which returns None
ValidatePhone ==
    /\ pc = "validate"
    /\ mode = "phones"
    /\ LET v == validate_phone_number(arg)
       IN  IF v.raised
           THEN /\ ret' = None
                /\ pc' = "return"
                /\ UNCHANGED ident
           ELSE /\ ident' = v.value
                /\ pc' = "direct"
                /\ UNCHANGED ret
    /\ UNCHANGED <<batchVars, arg, path, user, tu, nphotos, exc, calls, contacts,
                   contacts0, status>>

\* line 219: get_entity(phone); any exception goes to the bare except of line 223
DirectLookup ==
    /\ pc = "direct"
    /\ \/ /\ AccountOfPhone(ident) # None
          /\ user' = Some(Entity(AccountOfPhone(ident)[1]))
          /\ path' = "direct"
          /\ pc' = "from_user"
          /\ calls' = Append(calls, Call("get_entity", ident, 0, TRUE))
       \/ /\ pc' = "import"
          /\ calls' = Append(calls, Call("get_entity", ident, 0, FALSE))
          /\ UNCHANGED <<user, path>>
    /\ UNCHANGED <<batchVars, arg, ident, tu, nphotos, exc, ret, contacts,
                   contacts0, status>>

\* ImportContacts that answers an empty result.users with a deletion request
ImportContacts_DeletesOnEmpty ==
    /\ pc = "import"
    /\ \/ /\ calls' = Append(calls, Call("ImportContacts", ident, 0, FALSE))
          /\ ret' = None
          /\ pc' = "return"
          /\ UNCHANGED <<user, path, contacts>>
       \/ /\ calls' = calls \o <<Call("ImportContacts", ident, 0, TRUE),
                                 Call("DeleteContacts", <<>>, 0, TRUE)>>
          /\ ret' = None
          /\ pc' = "return"
          /\ UNCHANGED <<user, path, contacts>>
       \/ /\ AccountOfPhone(ident) # None
          /\ LET account == AccountOfPhone(ident)[1]
             IN  /\ calls' = Append(calls, Call("ImportContacts", ident, account.id, TRUE))
                 /\ user' = Some(Entity(account))
                 /\ contacts' = contacts \cup {account.id}
          /\ path' = "fallback"
          /\ pc' = "reresolve"
          /\ UNCHANGED ret
    /\ UNCHANGED <<batchVars, arg, ident, tu, nphotos, exc, contacts0, status>>

\* ImportContacts followed by the deletion, the re-resolution left out
ImportContacts_DeleteFirst ==
    /\ pc = "import"
    /\ \/ /\ calls' = Append(calls, Call("ImportContacts", ident, 0, FALSE))
          /\ ret' = None
          /\ pc' = "return"
          /\ UNCHANGED <<user, path, contacts>>
       \/ /\ calls' = Append(calls, Call("ImportContacts", ident, 0, TRUE))
          /\ ret' = None
          /\ pc' = "return"
          /\ UNCHANGED <<user, path, contacts>>
       \/ /\ AccountOfPhone(ident) # None
          /\ LET account == AccountOfPhone(ident)[1]
             IN  /\ calls' = Append(calls, Call("ImportContacts", ident, account.id, TRUE))
                 /\ user' = Some(Entity(account))
                 /\ contacts' = contacts \cup {account.id}
          /\ path' = "fallback"
          /\ pc' = "delete"
          /\ UNCHANGED ret
    /\ UNCHANGED <<batchVars, arg, ident, tu, nphotos, exc, contacts0, status>>

\* lines 224-229: import the number as a contact "Test User"
ImportContacts ==
    /\ pc = "import"
    /\ \/ \* the request raised: handler of line 241
          /\ calls' = Append(calls, Call("ImportContacts", ident, 0, FALSE))
          /\ ret' = None
          /\ pc' = "return"
          /\ UNCHANGED <<user, path, contacts>>
       \/ \* result.users is empty: line 227
          /\ calls' = Append(calls, Call("ImportContacts", ident, 0, TRUE))
          /\ ret' = None
          /\ pc' = "return"
          /\ UNCHANGED <<user, path, contacts>>
       \/ \* result.users[0] is the account of the number, now a contact
          /\ AccountOfPhone(ident) # None
          /\ LET account == AccountOfPhone(ident)[1]
             IN  /\ calls' = Append(calls, Call("ImportContacts", ident, account.id, TRUE))
                 /\ user' = Some(Entity(account))
                 /\ contacts' = contacts \cup {account.id}
          /\ path' = "fallback"
          /\ pc' = "reresolve"
          /\ UNCHANGED ret
    /\ UNCHANGED <<batchVars, arg, ident, tu, nphotos, exc, contacts0, status>>

\* line 231: full_user = get_entity(user.id)
ReResolve ==
    /\ pc = "reresolve"
    /\ \/ /\ calls' = Append(calls, Call("get_entity", <<>>, user[1].id, TRUE))
          /\ pc' = "delete"
          /\ UNCHANGED exc
       \/ /\ calls' = Append(calls, Call("get_entity", <<>>, user[1].id, FALSE))
          /\ exc' = TRUE
          /\ pc' = "finally"
    /\ UNCHANGED <<batchVars, arg, ident, path, user, tu, nphotos, ret, contacts,
                   contacts0, status>>

\* line 232: DeleteContactsRequest(id=[user.id]) inside the try
DeleteContact ==
    /\ pc = "delete"
    /\ \/ /\ calls' = Append(calls, Call("DeleteContacts", <<>>, user[1].id, TRUE))
          /\ contacts' = contacts \ {user[1].id}
          /\ pc' = "from_user"
          /\ UNCHANGED exc
       \/ /\ calls' = Append(calls, Call("DeleteContacts", <<>>, user[1].id, FALSE))
          /\ exc' = TRUE
          /\ pc' = "finally"
          /\ UNCHANGED contacts
    /\ UNCHANGED <<batchVars, arg, ident, path, user, tu, nphotos, ret, contacts0,
                   status>>

\* FinallyDelete without the finally block: the try's outcome leaves as it is
FinallyDelete_NoCleanup ==
    /\ pc = "finally"
    /\ ret' = IF exc THEN None ELSE tu
    /\ exc' = FALSE
    /\ pc' = "return"
    /\ UNCHANGED <<batchVars, arg, ident, path, user, tu, nphotos, calls, contacts,
                   contacts0, status>>

(* lines 236-243: the finally block deletes the contact again and swallows *)
(* a failure; then the try's return value is returned, or the propagating  *)
(* exception reaches the handler of line 241, which returns None.          *)
FinallyDelete ==
    /\ pc = "finally"
    /\ \/ /\ calls' = Append(calls, Call("DeleteContacts", <<>>, user[1].id, TRUE))
          /\ contacts' = contacts \ {user[1].id}
       \/ /\ calls' = Append(calls, Call("DeleteContacts", <<>>, user[1].id, FALSE))
          /\ UNCHANGED contacts
    /\ ret' = IF exc THEN None ELSE tu
    /\ exc' = FALSE
    /\ pc' = "return"
    /\ UNCHANGED <<batchVars, arg, ident, path, user, tu, nphotos, contacts0, status>>

(* ---------------- check_username ---------------- *)
\* line 247: a ValueError goes to the handler of line 253, which returns None
ValidateUsername ==
    /\ pc = "validate"
    /\ mode = "usernames"
    /\ LET v == validate_username(arg)
       IN  IF v.raised
           THEN /\ ret' = None
                /\ pc' = "return"
                /\ UNCHANGED ident
           ELSE /\ ident' = v.value
                /\ pc' = "resolve"
                /\ UNCHANGED ret
    /\ UNCHANGED <<batchVars, arg, path, user, tu, nphotos, exc, calls, contacts,
                   contacts0, status>>

\* ResolveUsername without the isinstance test of line 249
ResolveUsername_NoKindCheck ==
    /\ pc = "resolve"
    /\ \/ /\ calls' = Append(calls, Call("get_entity", ident, 0, FALSE))
          /\ ret' = None
          /\ pc' = "return"
          /\ UNCHANGED <<user, path>>
       \/ /\ AccountOfUsername(ident) # None
          /\ calls' = Append(calls, Call("get_entity", ident, 0, TRUE))
          /\ user' = Some(Entity(AccountOfUsername(ident)[1]))
          /\ path' = "username"
          /\ pc' = "from_user"
          /\ UNCHANGED ret
    /\ UNCHANGED <<batchVars, arg, ident, tu, nphotos, exc, contacts, contacts0,
                   status>>

\* lines 248-249: get_entity(username); only a types.User is looked at further
ResolveUsername ==
    /\ pc = "resolve"
    /\ \/ \* UsernameNotOccupiedError or any other exception: lines 256-261
          /\ calls' = Append(calls, Call("get_entity", ident, 0, FALSE))
          /\ ret' = None
          /\ pc' = "return"
          /\ UNCHANGED <<user, path>>
       \/ /\ AccountOfUsername(ident) # None
          /\ calls' = Append(calls, Call("get_entity", ident, 0, TRUE))
          /\ user' = Some(Entity(AccountOfUsername(ident)[1]))
          /\ path' = "username"
          /\ IF AccountOfUsername(ident)[1].kind = "User"
             THEN pc' = "from_user" /\ UNCHANGED ret
             ELSE pc' = "return" /\ ret' = None
    /\ UNCHANGED <<batchVars, arg, ident, tu, nphotos, exc, contacts, contacts0,
                   status>>

(* ---------------- enrichment, shared by the three call sites ---------------- *)
\* PhoneArgument that takes the number from the platform's entity
PhoneArgument_FromEntity == user[1].phone

\* the phone argument the lookup passes to from_user (lines 220, 233, 250)
PhoneArgument == IF mode = "phones" THEN ident ELSE <<>>

(* lines 220, 233, 250: TelegramUser.from_user, one GetFullUserRequest.    *)
(* An exception leaving from_user reaches the bare except of line 223 on   *)
(* the direct path (the lookup goes on with the contact import), the       *)
(* finally block on the fallback path, the handler of line 259 in          *)
(* check_username.                                                         *)
FromUser ==
    /\ pc = "from_user"
    /\ \E fetched \in BOOLEAN :
         LET full == IF fetched THEN Some(FullUserOf(user[1].id)) ELSE None
             r == from_user(full, user[1], PhoneArgument)
         IN  /\ calls' = Append(calls, Call("GetFullUser", <<>>, user[1].id, fetched))
             /\ IF ~r.raised
                THEN /\ tu' = r.value
                     /\ pc' = "photos"
                     /\ UNCHANGED <<exc, ret>>
                ELSE /\ UNCHANGED tu
                     /\ IF path = "direct"
                        THEN pc' = "import" /\ UNCHANGED <<exc, ret>>
                        ELSE IF path = "fallback"
                        THEN pc' = "finally" /\ exc' = TRUE /\ UNCHANGED ret
                        ELSE pc' = "return" /\ ret' = None /\ UNCHANGED exc
    /\ UNCHANGED <<batchVars, arg, ident, path, user, nphotos, contacts, contacts0,
                   status>>

\* f"{user.id}_{identifier}_photo_{i}.jpg" (lines 208-209)
PhotoPath(profile, i) ==
    [id |-> profile.id,
     identifier |-> IF profile.phone # <<>> THEN profile.phone ELSE profile.username,
     i |-> i]

\* download_all_profile_photos is over: back in the lookup (lines 222, 235, 252)
AfterPhotos ==
    IF path = "fallback"
    THEN pc' = "finally" /\ UNCHANGED ret
    ELSE pc' = "return" /\ ret' = tu'

\* lines 203-206 and 212-213: list the avatars
GetProfilePhotos ==
    /\ pc = "photos"
    /\ \/ \* the request raised: logged, nothing downloaded
          /\ calls' = Append(calls, Call("get_profile_photos", <<>>, user[1].id, FALSE))
          /\ UNCHANGED <<tu, nphotos>>
          /\ AfterPhotos
       \/ \E n \in 0..MaxPhotos :
          /\ calls' = Append(calls, Call("get_profile_photos", <<>>, user[1].id, TRUE))
          /\ UNCHANGED tu
          /\ IF n = 0
             THEN UNCHANGED nphotos /\ AfterPhotos
             ELSE nphotos' = n /\ pc' = "download" /\ UNCHANGED ret
    /\ UNCHANGED <<batchVars, arg, ident, path, user, exc, contacts, contacts0, status>>

\* DownloadMedia that empties profile_photos when a download fails
DownloadMedia_ResetOnFailure ==
    /\ pc = "download"
    /\ LET i == Len(tu[1].profile_photos)
       IN  \/ /\ calls' = Append(calls, Call("download_media", <<>>, user[1].id, TRUE))
              /\ tu' = Some([tu[1] EXCEPT !.profile_photos =
                                Append(@, PhotoPath(tu[1], i))])
              /\ IF i + 1 = nphotos
                 THEN AfterPhotos
                 ELSE UNCHANGED <<pc, ret>>
           \/ /\ calls' = Append(calls, Call("download_media", <<>>, user[1].id, FALSE))
              /\ tu' = Some([tu[1] EXCEPT !.profile_photos = <<>>])
              /\ AfterPhotos
    /\ UNCHANGED <<batchVars, arg, ident, path, user, nphotos, exc, contacts,
                   contacts0, status>>

\* lines 207-213: download the next avatar; a failure ends the loop
DownloadMedia ==
    /\ pc = "download"
    /\ LET i == Len(tu[1].profile_photos)
       IN  \/ /\ calls' = Append(calls, Call("download_media", <<>>, user[1].id, TRUE))
              /\ tu' = Some([tu[1] EXCEPT !.profile_photos =
                                Append(@, PhotoPath(tu[1], i))])
              /\ IF i + 1 = nphotos
                 THEN AfterPhotos
                 ELSE UNCHANGED <<pc, ret>>
           \/ /\ calls' = Append(calls, Call("download_media", <<>>, user[1].id, FALSE))
              /\ UNCHANGED tu
              /\ AfterPhotos
    /\ UNCHANGED <<batchVars, arg, ident, path, user, nphotos, exc, contacts,
                   contacts0, status>>

Next ==
    \/ ProcessNext
    \/ StoreResult
    \/ Finish
    \/ ValidatePhone
    \/ DirectLookup
    \/ ImportContacts
    \/ ReResolve
    \/ DeleteContact
    \/ FinallyDelete
    \/ ValidateUsername
    \/ ResolveUsername
    \/ FromUser
    \/ GetProfilePhotos
    \/ DownloadMedia

Spec == Init /\ [][Next]_vars

(* ======================= properties ======================= *)
\* positions in calls of the requests of one kind
CallsOf(op) == {i \in DOMAIN calls : calls[i].op = op}
\* imports that returned an entity / that returned none
ImportsFound == {i \in CallsOf("ImportContacts") : calls[i].ok /\ calls[i].id # 0}
ImportsEmpty == {i \in CallsOf("ImportContacts") : calls[i].ok /\ calls[i].id = 0}
\* the lookup has returned to the batch loop, its return value not yet stored
Returned == pc = "return"

\* C1: a phone lookup whose contact import returned an entity has issued
\* exactly one import request and, after it, at least one deletion request
\* for that entity by the time it returns, whatever failed afterwards.
C1_ImportOnceDeleteAtLeastOnce ==
    (Returned /\ mode = "phones") =>
        \A i \in ImportsFound :
            /\ Cardinality(CallsOf("ImportContacts")) = 1
            /\ \E j \in CallsOf("DeleteContacts") : j > i /\ calls[j].id = calls[i].id

\* C1 witness: the import returned an entity and the re-resolution failed
C1_Witness ==
    /\ Returned
    /\ ImportsFound # {}
    /\ \E j \in CallsOf("get_entity") : calls[j].id # 0 /\ ~calls[j].ok
    /\ CallsOf("DeleteContacts") # {}

\* C2 as stated: when the import reports no account the lookup returns
\* NotFound and a deletion request was still issued.
C2_NotFoundStillDeletes ==
    (Returned /\ ImportsEmpty # {}) => (ret = None /\ CallsOf("DeleteContacts") # {})

\* C2 amended: when the import reports no account the lookup returns
\* NotFound and issues no deletion request at all.
C2_NotFoundNoDelete ==
    (Returned /\ ImportsEmpty # {}) => (ret = None /\ CallsOf("DeleteContacts") = {})

\* C2 witness: a lookup returns after an import that reported no account
C2_Witness == Returned /\ ImportsEmpty # {} /\ ret = None

\* C3: a failed deletion request does not change the outcome: a lookup whose
\* import returned the entity, whose re-resolution succeeded and whose
\* classification does not fail is Found also when a deletion request failed.
C3_DeleteFailureKeepsOutcome ==
    ( /\ Returned
      /\ ImportsFound # {}
      /\ \E j \in CallsOf("get_entity") : calls[j].id # 0 /\ calls[j].ok
      /\ ~get_enhanced_user_status(status).raised
      /\ \E j \in CallsOf("DeleteContacts") : ~calls[j].ok )
    => ret # None

\* the accounts the lookup's imports returned, and those a request deleted
ImportedIds == {calls[i].id : i \in ImportsFound}
DeletedIds == {calls[i].id : i \in {j \in CallsOf("DeleteContacts") : calls[j].ok}}

\* C4 as stated: the contact list after the lookup equals the list before it.
C4_ContactsRestored == Returned => contacts = contacts0

\* C4 amended: without an imported entity the contact list is the one before
\* the call; with an imported entity u a deletion request for u was issued,
\* and the list is the one before the call without u when a deletion
\* succeeded, the one before the call plus u when every deletion failed.
C4_ContactsFrame ==
    Returned =>
        /\ ImportedIds = {} => contacts = contacts0
        /\ \A u \in ImportedIds :
              /\ \E j \in CallsOf("DeleteContacts") : calls[j].id = u
              /\ u \in DeletedIds => contacts = contacts0 \ {u}
              /\ u \notin DeletedIds => contacts = contacts0 \cup {u}

\* C4 witness: an imported contact that was no contact before is gone again
C4_Witness ==
    /\ Returned
    /\ \E u \in ImportedIds : u \in DeletedIds /\ u \notin contacts0
    /\ contacts = contacts0

\* the input entries that are not blank, in input order
NonBlank == SelectSeq(ids, LAMBDA raw : strip(raw) # <<>>)
\* the last lookup made for a key
LastLookup(k) == log[CHOOSE j \in DOMAIN log :
                        /\ log[j].key = k
                        /\ \A m \in DOMAIN log : log[m].key = k => m <= j]

\* C5: when a batch run is over, one lookup was made for every non-blank
\* identifier, in input order, whatever the lookups before it returned; each
\* has an entry in the mapping, and every entry is the error entry or the
\* profile of that key's own last lookup.
C5_BatchIsolation ==
    pc = "done" =>
        /\ Len(log) = Len(NonBlank)
        /\ \A j \in DOMAIN log : log[j].key = strip(NonBlank[j])
        /\ DOMAIN results = {strip(NonBlank[j]) : j \in DOMAIN NonBlank}
        /\ \A k \in DOMAIN results :
              IF LastLookup(k).ret = None
              THEN results[k] = [error |-> <<"No Telegram account found">>, data |-> None]
              ELSE results[k] = [error |-> <<>>, data |-> LastLookup(k).ret]

\* C5 witness: the first identifier failed, the second one was found
C5_Witness ==
    /\ pc = "done"
    /\ Len(log) = 2
    /\ log[1].ret = None
    /\ log[2].ret # None
    /\ log[1].key # log[2].key

\* the raw identifier of the running lookup fails syntactic validation
RawInvalid ==
    /\ pc \notin {"loop", "done"}
    /\ IF mode = "phones"
       THEN validate_phone_number(ids[idx]).raised
       ELSE validate_username(ids[idx]).raised

\* C6: a lookup of an identifier that fails validation issues no platform
\* request, leaves the contact list alone and returns None.
C6_InvalidNoPlatformCall ==
    RawInvalid => /\ calls = <<>>
                  /\ contacts = contacts0
                  /\ pc \in {"validate", "return"}
                  /\ Returned => ret = None

\* C6 witness: the lookup of an invalid identifier has returned
C6_Witness == RawInvalid /\ Returned /\ calls = <<>>

\* C7: the entry of an identifier that fails phone validation carries the
\* validation message.
C7_InvalidPhoneEntry ==
    (pc = "done" /\ mode = "phones") =>
        \A i \in DOMAIN ids :
            (strip(ids[i]) # <<>> /\ validate_phone_number(ids[i]).raised) =>
                /\ strip(ids[i]) \in DOMAIN results
                /\ results[strip(ids[i])].error # <<>>
                /\ results[strip(ids[i])].error[1] = "Invalid phone number format: "

\* C8: a username lookup issues no contact import and no contact deletion,
\* and when the entity it resolved is no user account it returns None after
\* that one request.
C8_UsernameNoContactCalls ==
    mode = "usernames" =>
        /\ CallsOf("ImportContacts") = {}
        /\ CallsOf("DeleteContacts") = {}
        /\ contacts = contacts0
        /\ (user # None /\ user[1].kind # "User") =>
               /\ Returned
               /\ ret = None
               /\ Len(calls) = 1
               /\ calls[1].op = "get_entity"

\* C8 witness: a username lookup resolved a channel and has returned
C8_Witness ==
    /\ mode = "usernames"
    /\ Returned
    /\ user # None
    /\ user[1].kind = "Channel"

\* '%Y-%m-%d %H:%M:%S UTC' of the sample instants, written out
ExpectedExact(t) ==
    IF t.year = 2024
    THEN <<"2", "0", "2", "4", "-", "0", "1", "-", "0", "5", " ",
           "0", "9", ":", "0", "3", ":", "0", "0", " ", "U", "T", "C">>
    ELSE <<"1", "9", "9", "9", "-", "1", "2", "-", "3", "1", " ",
           "2", "3", ":", "5", "9", ":", "5", "9", " ", "U", "T", "C">>

\* C9: every TelegramUser carries the category, privacy flag and exact time
\* of the table for the status of its entity, and the implications between
\* the three fields hold.
C9_ClassifierTable ==
    tu # None =>
        LET s == user[1].status
            p == tu[1]
            row(category, restricted, exact) ==
                /\ p.status_type = category
                /\ p.privacy_restricted = restricted
                /\ p.last_seen_exact = exact
        IN  /\ s.variant = "UserStatusOnline" => row("online", FALSE, None)
            /\ (s.variant = "UserStatusOffline" /\ s.was_online # None) =>
                   row("offline", FALSE, Some(ExpectedExact(s.was_online[1])))
            /\ s.variant = "UserStatusRecently" => row("recently", TRUE, None)
            /\ s.variant = "UserStatusLastWeek" => row("last_week", TRUE, None)
            /\ s.variant = "UserStatusLastMonth" => row("last_month", TRUE, None)
            /\ s.variant = "None" => row("unavailable", FALSE, None)
            /\ s.variant = "UserStatusEmpty" => row("unknown", FALSE, None)
            /\ p.privacy_restricted => p.last_seen_exact = None
            /\ p.status_type = "online" =>
                   (p.last_seen_exact = None /\ ~p.privacy_restricted)
            /\ p.status_type = "offline" => p.last_seen_exact # None
            /\ p.privacy_restricted <=>
                   p.status_type \in {"recently", "last_week", "last_month"}

\* C9 witness: a profile of a privacy-restricted bucket has been built
C9_Witness ==
    /\ tu # None
    /\ user[1].status.variant = "UserStatusRecently"
    /\ tu[1].privacy_restricted

\* C10: the classifier never raises, so a lookup whose first request
\* resolved a user account returns a profile and issues no contact import.
C10_ClassifierNeverDerails ==
    ( /\ Returned
      /\ calls # <<>>
      /\ calls[1].op = "get_entity"
      /\ calls[1].ok
      /\ user[1].kind = "User" )
    => (ret # None /\ CallsOf("ImportContacts") = {})

\* the GetFullUserRequest of the from_user call that built the profile
LastFetch == calls[CHOOSE i \in CallsOf("GetFullUser") :
                      \A j \in CallsOf("GetFullUser") : j <= i]

\* C11 as stated: a Found lookup whose metadata fetch failed returns a
\* profile whose bio, common_chats_count and blocked are None.
C11_FailedFetchLeavesNone ==
    (Returned /\ ret # None /\ ~LastFetch.ok) =>
        /\ ret[1].bio = None
        /\ ret[1].common_chats_count = None
        /\ ret[1].blocked = None

\* C11 amended: a failed metadata fetch does not keep a classifiable entity
\* from being Found; the profile then carries the defaults '', 0 and False,
\* and the account's own values when the fetch succeeded.
C11_FailedFetchLeavesDefaults ==
    Returned =>
        /\ ( /\ CallsOf("GetFullUser") # {}
             /\ ~LastFetch.ok
             /\ ~get_enhanced_user_status(status).raised ) => ret # None
        /\ (ret # None /\ ~LastFetch.ok) =>
               /\ ret[1].bio = Some("")
               /\ ret[1].common_chats_count = Some(0)
               /\ ret[1].blocked = Some(FALSE)
        /\ (ret # None /\ LastFetch.ok) =>
               /\ ret[1].bio = Some("Hello there")
               /\ ret[1].common_chats_count = Some(2)
               /\ ret[1].blocked = Some(TRUE)

\* C11 witness: a lookup is Found although its metadata fetch failed
C11_Witness == Returned /\ ret # None /\ ~LastFetch.ok

\* the avatar requests of the lookup that failed / the downloads that succeeded
AvatarFailures ==
    {i \in CallsOf("get_profile_photos") \cup CallsOf("download_media") : ~calls[i].ok}
DownloadsDone == {i \in CallsOf("download_media") : calls[i].ok}

\* C12 as stated: when an avatar request fails the lookup is Found and the
\* profile holds no avatar.
C12_AvatarFailureCountsZero ==
    (Returned /\ AvatarFailures # {}) =>
        (ret # None /\ Len(ret[1].profile_photos) = 0)

\* C12 amended: when an avatar request fails the lookup is Found and the
\* profile holds the avatars downloaded before the failure: none when the
\* listing or the first download failed, k-1 when the k-th download failed.
C12_AvatarFailureKeepsDownloaded ==
    Returned =>
        /\ CallsOf("get_profile_photos") # {} => ret # None
        /\ ret # None =>
               /\ Len(ret[1].profile_photos) = Cardinality(DownloadsDone)
               /\ \A k \in DOMAIN ret[1].profile_photos :
                      ret[1].profile_photos[k].i = k - 1
        /\ (\E i \in CallsOf("get_profile_photos") : ~calls[i].ok) =>
               Len(ret[1].profile_photos) = 0

\* C12 witness: the second download failed after the first succeeded
C12_Witness ==
    /\ Returned
    /\ ret # None
    /\ AvatarFailures # {}
    /\ Len(ret[1].profile_photos) = 1

\* C13 as stated: the keys of the mapping are the raw input strings, one
\* entry per non-blank input entry.
C13_KeysAreRawStrings ==
    pc = "done" =>
        /\ DOMAIN results = {NonBlank[j] : j \in DOMAIN NonBlank}
        /\ Cardinality(DOMAIN results) = Len(NonBlank)

\* C13 amended: the keys of the mapping are the input strings with their
\* surrounding whitespace stripped and nothing else changed (inner
\* characters, a missing '+' and a leading '@' stay), one entry per distinct
\* stripped non-blank string.
C13_KeysAreStrippedStrings ==
    pc = "done" =>
        /\ DOMAIN results = {strip(NonBlank[j]) : j \in DOMAIN NonBlank}
        /\ \A k \in DOMAIN results :
              \E j \in DOMAIN NonBlank :
                 \E a, b \in 0..Len(NonBlank[j]) :
                    /\ a + Len(k) + b = Len(NonBlank[j])
                    /\ k = SubSeq(NonBlank[j], a + 1, a + Len(k))
                    /\ k[1] \notin Whitespace
                    /\ k[Len(k)] \notin Whitespace
                    /\ \A m \in (1..a) \cup ((a + Len(k) + 1)..Len(NonBlank[j])) :
                          NonBlank[j][m] \in Whitespace

\* C13 witness: an identifier with surrounding blanks and inner dashes is
\* filed under its stripped, otherwise unchanged form
C13_Witness ==
    /\ pc = "done"
    /\ \E j \in DOMAIN NonBlank : NonBlank[j] = PhoneSpaced
    /\ SubSeq(PhoneSpaced, 2, Len(PhoneSpaced) - 1) \in DOMAIN results
    /\ PhoneSpaced \notin DOMAIN results

\* C14: no lookup ever runs for a blank entry, a finished run has made one
\* lookup per non-blank entry and holds no entry for a blank one, and the
\* list of two blank entries and one valid number yields exactly one entry.
C14_BlanksSkipped ==
    /\ pc \notin {"loop", "done"} => strip(ids[idx]) # <<>>
    /\ pc = "done" =>
          /\ Len(log) = Cardinality({i \in DOMAIN ids : strip(ids[i]) # <<>>})
          /\ \A i \in DOMAIN ids :
                strip(ids[i]) = <<>> =>
                    (ids[i] \notin DOMAIN results /\ <<>> \notin DOMAIN results)
          /\ ids = BlanksThenPhone => Cardinality(DOMAIN results) = 1

\* C14 witness: the run over two blank entries and one number is over
C14_Witness ==
    /\ pc = "done"
    /\ ids = BlanksThenPhone
    /\ DOMAIN results = {PhoneAlice}

\* C15 as stated: the phone field of a returned profile is the identifier
\* the caller passed to the lookup.
C15_PhoneIsSuppliedIdentifier ==
    (Returned /\ ret # None) => ret[1].phone = arg

\* C15 amended: the phone field of a profile returned by a phone lookup is
\* the normalised form of the supplied number ('+' and digits only) on both
\* paths, that of a profile returned by a username lookup is the empty
\* string; it is never the number the platform's entity carries.
C15_PhoneIsNormalisedNumber ==
    (Returned /\ ret # None) =>
        /\ mode = "phones" =>
              /\ ret[1].phone = <<"+">> \o SelectSeq(arg, LAMBDA c : c \in Digits)
              /\ ret[1].phone # user[1].phone
        /\ mode = "usernames" => ret[1].phone = <<>>

\* C15 witness: a number supplied without '+' was found through the fallback
C15_Witness ==
    /\ Returned
    /\ ret # None
    /\ arg = PhoneAlicePlain
    /\ path = "fallback"
    /\ ret[1].phone = PhoneAlice

\* C16: in a phone lookup an import request is issued exactly when the
\* direct get_entity failed, and after a successful direct lookup no deletion
\* request is issued either.
C16_ImportIffDirectFailed ==
    (Returned /\ mode = "phones" /\ calls # <<>>) =>
        /\ CallsOf("ImportContacts") # {} <=> ~calls[1].ok
        /\ calls[1].ok => CallsOf("DeleteContacts") = {}

\* C17 as stated: after an import that returned the entity, a deletion
\* request precedes every request that re-resolves the entity.
C17_DeleteBeforeReResolve ==
    \A i \in ImportsFound :
        \A j \in CallsOf("get_entity") :
            j > i => \E d \in CallsOf("DeleteContacts") : i < d /\ d < j

\* C17 amended: after an import that returned the entity the next request
\* re-resolves it, the first deletion request follows the re-resolution, the
\* metadata fetch follows a successful re-resolution and deletion, and the
\* last request before the lookup returns is a deletion.
C17_ReResolveBeforeDelete ==
    \A i \in ImportsFound :
        /\ Len(calls) > i =>
              (calls[i + 1].op = "get_entity" /\ calls[i + 1].id = calls[i].id)
        /\ Len(calls) > i + 1 => calls[i + 2].op = "DeleteContacts"
        /\ (Len(calls) > i + 2 /\ calls[i + 1].ok /\ calls[i + 2].ok) =>
              calls[i + 3].op = "GetFullUser"
        /\ \A d \in CallsOf("DeleteContacts") :
              \E j \in CallsOf("get_entity") : i < j /\ j < d
        /\ Returned => calls[Len(calls)].op = "DeleteContacts"

\* C17 witness: a lookup was Found through the fallback
C17_Witness ==
    /\ Returned
    /\ ImportsFound # {}
    /\ ret # None
    /\ Cardinality(CallsOf("DeleteContacts")) = 2

\* C18: requests are issued one after the other, only while the lookup of
\* the current position runs; the loop moves on by one position, and only
\* when that lookup has returned (or the entry is blank), so every request
\* for position i precedes every request for position i+1.
C18_StrictlySequential ==
    [][ /\ idx' # idx =>
              /\ idx' = idx + 1
              /\ pc' = "loop"
              /\ pc = "return" \/ (pc = "loop" /\ calls = <<>>)
        /\ calls' # calls =>
              \/ calls' = <<>> /\ pc = "return"
              \/ /\ Len(calls') = Len(calls) + 1
                 /\ SubSeq(calls', 1, Len(calls)) = calls
                 /\ idx' = idx
                 /\ pc \notin {"loop", "validate", "return", "done"}
        /\ pc' \in {"loop", "done"} => calls' = <<>>
      ]_vars

\* C18 witness: requests are being issued for the second position after the
\* lookup of the first one, which was Found, has returned
C18_Witness ==
    /\ idx = 2
    /\ Len(log) = 1
    /\ log[1].ret # None
    /\ calls # <<>>

\* C19: every occurrence of an identifier is looked up, and the entry of a
\* key that occurs more than once is that of its last occurrence.
C19_LastWriteWins ==
    pc = "done" =>
        /\ \A k \in DOMAIN results :
              Cardinality({j \in DOMAIN log : log[j].key = k})
                  = Cardinality({i \in DOMAIN ids : strip(ids[i]) = k})
        /\ \A i, j \in DOMAIN log :
              ( /\ i < j
                /\ log[i].key = log[j].key
                /\ \A m \in DOMAIN log : m > j => log[m].key # log[j].key ) =>
                  /\ results[log[j].key].data = log[j].ret
                  /\ results[log[j].key].error # <<>> <=> log[j].ret = None

\* C19 witness: the first occurrence was Found, the second one failed, and
\* the entry is the error entry
C19_Witness ==
    /\ pc = "done"
    /\ Len(log) = 2
    /\ log[1].key = log[2].key
    /\ log[1].ret # None
    /\ log[2].ret = None
    /\ results[log[1].key].error # <<>>

\* C20: every deletion request follows an import of the same lookup that
\* returned a user and targets that user's id; a lookup issues at most two
\* of them, and none without such an import.
C20_DeletionsTargetImportedUser ==
    /\ \A d \in CallsOf("DeleteContacts") :
          \E i \in ImportsFound : i < d /\ calls[d].id = calls[i].id
    /\ Cardinality(CallsOf("DeleteContacts")) <= 2
    /\ ImportsFound = {} => CallsOf("DeleteContacts") = {}
    /\ (Returned /\ path = "direct") => CallsOf("DeleteContacts") = {}

\* C20 witness: a lookup has issued both deletion requests
C20_Witness ==
    /\ Returned
    /\ Cardinality(CallsOf("DeleteContacts")) = 2
    /\ ImportsFound # {}

====
